---- MODULE Spec2Model ----
(***************************************************************************)
(* Model of the vasm "naoto" syntax module (src/syntax/naoto/syntax.c):    *)
(* the parse() line driver with its conditional gate, the stop flag, the   *)
(* module scope stack, the anonymous-label counter, and the pure scanner   *)
(* get_local_label().                                                      *)
(*                                                                         *)
(* A source line is modelled by the fields parse() extracts from its text: *)
(* the label field found by parse_label_or_pc(), an optional inline `iif`, *)
(* and the directive / mnemonic token with the outcome of its operand.     *)
(* The conditional engine (cond_if, cond_else, ...) is not part of         *)
(* syntax.c; it is modelled from the specification's ConditionalFrame.     *)
(***************************************************************************)
EXTENDS Integers, Sequences, FiniteSets, TLC

\* ------------------------------------------------------------------ bounds
\* number of unread lines of the input at the start
MaxLines == 4
\* module/modend lines already read when the module-stack runs start
\* (depth INLSTACKSIZE - StartBelow .. INLSTACKSIZE is then within reach)
StartBelow == 2
\* longest label token handed to get_local_label
MaxTok == 4
\* largest anonymous counter value in the label-scanner runs
MaxAnon == 2
\* longest start of a line handed to parse_label_or_pc
MaxText == 5
\* most atoms of a structure template, longest operand text of its use
MaxFields == 2
MaxStructText == 4
\* largest free space of the output buffer handed to expand_macro
MaxDlen == 9
\* the small unique ids of the runs that compare two invocations
MaxUid == 11
\* longest operand text split into operands
MaxOperandText == 5
\* most binding directives applied to one symbol
MaxBinds == 3
\* most lines of an input of the offset-symbol runs
MaxRsLines == 3

\* ------------------------------------------------------- program constants
INLSTACKSIZE == 100
\* static char inl_lab_name[8]
inl_lab_name_size == 8

VARIABLES
  pc,                      \* "parsing" inside the while loop, "done" after it
  remaining,               \* unread lines left in the line source
  parse_end,               \* the stop flag
  cond,                    \* conditional frames, innermost last
  anon_labno,              \* anonymous-label counter
  inline_stack,            \* module ids, indices 0..INLSTACKSIZE-1
  inline_stack_index,      \* module nesting depth
  module_id,               \* static int id of handle_module
  last_global_label,       \* current scope prefix (symbol-table side)
  saved_last_global_label, \* prefix saved by the outermost module
  rs,                      \* value of the offset symbol __RS
  align_data,              \* option -align: data is aligned to its size
  macros,                  \* names of defined macros
  structs,                 \* names of defined structure templates
  labsyms,                 \* number of label / equate symbols created
  atoms,                   \* number of atoms appended
  cond_checks,             \* number of cond_check() calls made
  errs,                    \* diagnostics raised by the last step
  last,                    \* what the last step read and did
  chain,                   \* per conditional frame: history of its branches
  tok,                     \* label-scanner run: the token text
  res                      \* label-scanner run: result of get_local_label

vars == <<pc, remaining, parse_end, cond, anon_labno, inline_stack,
          inline_stack_index, module_id, last_global_label,
          saved_last_global_label, rs, align_data, macros, structs, labsyms, atoms,
          cond_checks, errs, last, chain, tok, res>>

\* ------------------------------------------------ conditional engine
\* A frame is [taken, else_seen]; the stack is a sequence, innermost last.
Frame(t, e) == [taken |-> t, else_seen |-> e]

\* active(): every frame has its branch-taken flag true
cond_state(c) == \A i \in 1..Len(c) : c[i].taken

SetTop(c, f) == [c EXCEPT ![Len(c)] = f]

\* push(bool): a guard was evaluated, open a frame
cond_if(g, flag) ==
  [g EXCEPT !.cond = Append(g.cond, Frame(flag, FALSE))]

\* an if* read while skipping opens a frame without evaluating a guard
cond_skipif(g) ==
  [g EXCEPT !.cond = Append(g.cond, Frame(FALSE, FALSE))]

\* enter_else() while the branch is being skipped
cond_else(g) ==
  IF g.cond = <<>> THEN [g EXCEPT !.errs = @ \cup {"else_without_if"}]
  ELSE IF g.cond[Len(g.cond)].else_seen
       THEN [g EXCEPT !.errs = @ \cup {"else_after_else"}]
       ELSE [g EXCEPT !.cond = SetTop(@, Frame(TRUE, TRUE))]

\* enter_else() while the branch is being dispatched
cond_skipelse(g) ==
  IF g.cond = <<>> THEN [g EXCEPT !.errs = @ \cup {"else_without_if"}]
  ELSE IF g.cond[Len(g.cond)].else_seen
       THEN [g EXCEPT !.errs = @ \cup {"else_after_else"}]
       ELSE [g EXCEPT !.cond = SetTop(@, Frame(FALSE, TRUE))]

\* enter_elseif(bool)
cond_elseif(g, flag) ==
  IF g.cond = <<>> THEN [g EXCEPT !.errs = @ \cup {"else_without_if"}]
  ELSE IF g.cond[Len(g.cond)].else_seen
       THEN [g EXCEPT !.errs = @ \cup {"else_after_else"}]
       ELSE [g EXCEPT !.cond = SetTop(@, Frame(flag, FALSE))]

\* pop()
cond_endif(g) ==
  IF g.cond = <<>> THEN [g EXCEPT !.errs = @ \cup {"endif_without_if"}]
  ELSE [g EXCEPT !.cond = SubSeq(@, 1, Len(@) - 1)]

\* end of input: a non-empty stack is reported
cond_check(g) ==
  [g EXCEPT !.cond_checks = @ + 1,
            !.errs = IF g.cond # <<>> THEN @ \cup {"unterminated_cond"} ELSE @]

\* ---------------------------------------------------------------- lines
\* label field as found by parse_label_or_pc: none, a bare ":" in column
\* one, or an identifier recognised as a label
LabelName == <<"M">>

\* the label text of a line: "dname" is a label spelled like the directive dc
LabelText(line) == IF line.lab = "dname" THEN <<"dc">> ELSE LabelName
NULL == <<"NULL">>

IfDirs == {"if", "ifdef", "ifmac", "ifstreq", "ifstr"}

\* operand of inform: the severity, and whether the comma or the message
\* text after it is missing
InformArgs == {"2", "3", "4", "3nocomma", "3notext"}

\* a line: the label field, an inline iif with the value of its
\* expression, the directive / mnemonic token d, and the outcome a of the
\* operand text of d
L(lab, iif, d, a) == [lab |-> lab, iif |-> iif, d |-> d, a |-> a]

\* input lines of the conditional-assembly runs
CondLines ==
  { L("none", "none", "if", a) : a \in {"T", "F", "bad"} } \cup
  { L("none", "none", "ifdef", a) : a \in {"T", "bad"} } \cup
  { L("none", "none", "elseif", a) : a \in {"T", "F", "bad"} } \cup
  { L("none", "none", d, "") :
      d \in {"else", "endif", "nop", "dc", "module", "fail"} } \cup
  { L("anon", "none", "", ""), L("name", "none", "", ""),
    L("name", "none", "macro", ""), L("name", "none", "struct", ""),
    L("name", "none", "equ", ""),
    L("none", "T", "else", ""), L("none", "F", "nop", "") }

\* input lines of the stop-flag runs
StopLines ==
  { L("none", "none", "inform", a) : a \in InformArgs } \cup
  { L("none", "none", "if", a) : a \in {"T", "F"} } \cup
  { L("none", "none", d, "") :
      d \in {"fail", "end", "else", "endif", "module", "modend", "nop",
             "M"} } \cup
  { L("none", "none", d, "1") : d \in {"rs", "rsset"} } \cup
  { L("anon", "none", "", ""), L("name", "none", "", ""),
    L("name", "none", "macro", ""), L("name", "none", "rs", "1") }

\* input lines of the module-stack runs
ModLines ==
  { L("none", "none", d, "") : d \in {"module", "modend", "endif"} } \cup
  { L("name", "none", "", ""), L("none", "none", "if", "F"),
    L("none", "none", "end", "") }

\* input lines of the mnemonic-lookup runs: macros and structure templates
\* named M and dc, and the mnemonics M, dc, nop and an unknown one
MnemLines ==
  { L(lab, "none", d, "") : lab \in {"name", "dname"},
                            d \in {"macro", "struct"} } \cup
  { L("none", "none", d, "") : d \in {"M", "dc", "nop", "xyz"} }

\* input lines of the offset-symbol runs: rs with and without label,
\* size and operand, the other offset directives, and lines that leave
\* the offset symbol alone
RsLines ==
  { L("name", "none", d, a) : d \in {"rs", "rs.b", "rs.w", "rs.l"},
                              a \in {"", "1", "3"} } \cup
  { L("none", "none", d, "3") : d \in {"rs", "rs.b", "rs.l", "rsset"} } \cup
  { L("none", "none", d, "") : d \in {"rsreset", "rseven", "nop", "fail"} } \cup
  { L("name", "none", "rs.x", "1"), L("name", "none", "", ""),
    L("name", "none", "equ", ""), L("none", "none", "if", "F") }

\* input lines of the runs over every if* family: operand well formed
\* ("T", "F") or malformed ("bad")
IfLines ==
  { L("none", "none", "if", a) : a \in {"T", "F", "bad"} } \cup
  { L("none", "none", d, a) : d \in IfDirs \ {"if"}, a \in {"T", "bad"} } \cup
  { L("none", "none", d, "") : d \in {"else", "endif", "nop"} }

Lines ==
  CondLines \cup StopLines \cup ModLines \cup MnemLines \cup RsLines
    \cup IfLines

\* names registered in directives[]
Directives ==
  IfDirs \cup {"else", "elseif", "endif", "module", "modend", "fail", "end",
               "inform", "rsreset", "rsset", "rseven", "rs", "rs.b", "rs.w",
               "rs.l", "dc", "list",
               "endm", "struct"}

Err(g, e) == [g EXCEPT !.errs = @ \cup {e}]

\* ------------------------------------------------- decimal formatting
DigitChar(n) == <<"0", "1", "2", "3", "4", "5", "6", "7", "8", "9">>[n + 1]

RECURSIVE Dec(_)
Dec(n) ==
  IF n < 10 THEN <<DigitChar(n)>>
  ELSE Append(Dec(n \div 10), DigitChar(n % 10))

RECURSIVE Pad(_, _)
Pad(ds, w) == IF Len(ds) >= w THEN ds ELSE Pad(<<"0">> \o ds, w)

\* sprintf(inl_lab_name,INLLABFMT,id) with INLLABFMT "=%06d"
InlLabName(id) == <<"=">> \o Pad(Dec(id), 6)

\* what inl_lab_name holds after sprintf(inl_lab_name,INLLABFMT,id): the
\* text when it fits the array with its terminator; a longer text is
\* written past the end of the array, which is undefined, and ub is the
\* outcome of that write: the text reads back intact, or it does not
inl_lab_name(id, ub) ==
  IF Len(InlLabName(id)) + 1 <= inl_lab_name_size \/ ub = "intact"
  THEN InlLabName(id)
  ELSE <<"?">>

\* ------------------------------------------------ conditional directives
\* guard value computed by eval_ifexp: non-constant gives error 30 and 0
eval_ifexp(g, a) ==
  LET g1 == [g EXCEPT !.evals = @ + 1]
  IN  IF a = "bad" THEN Err(g1, "expr_not_const") ELSE g1

ifexp(g, a) == cond_if(eval_ifexp(g, a), a = "T")

ifdef(g, a) ==
  IF a = "bad" THEN Err(g, "ident_expected") ELSE cond_if(g, a = "T")

ifmacro(g, a) ==
  IF a = "bad" THEN Err(g, "ident_expected") ELSE cond_if(g, a = "T")

ifc(g, a) ==
  IF a = "bad" THEN Err(g, "missing_operand") ELSE cond_if(g, a = "T")

handle_ifnb(g, a) == cond_if(g, a = "T")

handle_else(g) == cond_skipelse(g)

\* variant: elseif in a dispatched branch leaves the branch open
handle_elseif_stay(g) == g

handle_elseif(g) == cond_skipelse(g)

handle_endif(g) == cond_endif(g)

\* ------------------------------------------------------ module / modend
\* variant: depth test off by one
handle_module_offbyone(g) ==
  IF g.inline_stack_index <= INLSTACKSIZE
  THEN [g EXCEPT
         !.last_global_label = inl_lab_name(g.module_id, g.ub),
         !.saved_last_global_label =
            IF g.inline_stack_index = 0 THEN g.last_global_label ELSE @,
         !.inline_stack = [@ EXCEPT ![g.inline_stack_index] = g.module_id],
         !.inline_stack_index = @ + 1,
         !.module_id = @ + 1]
  ELSE Err(g, "module_depth")

handle_module(g) ==
  IF g.inline_stack_index < INLSTACKSIZE
  THEN [g EXCEPT
         !.last_global_label = inl_lab_name(g.module_id, g.ub),
         !.saved_last_global_label =
            IF g.inline_stack_index = 0 THEN g.last_global_label ELSE @,
         !.inline_stack = [@ EXCEPT ![g.inline_stack_index] = g.module_id],
         !.inline_stack_index = @ + 1,
         !.module_id = @ + 1]
  ELSE Err(g, "module_depth")

handle_endmodule(g) ==
  IF g.inline_stack_index > 0
  THEN IF g.inline_stack_index - 1 = 0
       THEN [g EXCEPT !.inline_stack_index = @ - 1,
                      !.last_global_label = g.saved_last_global_label,
                      !.saved_last_global_label = NULL]
       ELSE [g EXCEPT !.inline_stack_index = @ - 1,
                      !.last_global_label =
                         inl_lab_name(g.inline_stack[g.inline_stack_index - 2],
                                     g.ub)]
  ELSE Err(g, "modend_without_module")

\* ------------------------------------------------------ stop directives
handle_inform(g, a) ==
  CASE a = "3nocomma" -> Err(g, "missing_operand")
    [] a = "3notext"  -> g
    [] a = "2" -> Err(g, "inform_error")
    [] a = "3" -> [Err(g, "inform_fatal") EXCEPT !.parse_end = TRUE]
    [] OTHER   -> Err(g, "bad_severity")

handle_fail(g) == [Err(g, "fail") EXCEPT !.parse_end = TRUE]

handle_end(g) == [g EXCEPT !.parse_end = TRUE]

\* ------------------------------------------------------- offset symbol
handle_rsreset(g) == [g EXCEPT !.rs = 0]

\* value of the operand expression of an offset directive
ExprVal(a) == CASE a = "1" -> 1 [] a = "3" -> 3 [] OTHER -> 0

handle_rsset(g, a) == [g EXCEPT !.rs = ExprVal(a)]

setoffset_align(v, align) == ((v + (align - 1)) \div align) * align

handle_rseven(g) == [g EXCEPT !.rs = setoffset_align(@, 2)]

\* DATA_ALIGN(bits): data of that width is aligned to its size in bytes
DATA_ALIGN(bits) == bits \div 8

\* variant: the label is bound to the offset after the step
new_setoffset_size_after(g, equ, a, size) ==
  LET old == IF a = "" THEN g.rs
             ELSE IF g.align_data /\ size > 1
                  THEN setoffset_align(g.rs, DATA_ALIGN(size * 8))
                  ELSE g.rs
      new == IF a = "" THEN g.rs ELSE old + ExprVal(a) * size
  IN  [g EXCEPT !.labsyms = IF equ THEN @ + 1 ELSE @,
                !.equ = IF equ THEN new ELSE @,
                !.rs = new]

\* new_setoffset_size(equname,rs_name,&s,1,size): equ tells whether there
\* is a label to bind, a is the operand text ("" at the end of the line)
new_setoffset_size(g, equ, a, size) ==
  LET old == IF a = "" THEN g.rs
             ELSE IF g.align_data /\ size > 1
                  THEN setoffset_align(g.rs, DATA_ALIGN(size * 8))
                  ELSE g.rs
      new == IF a = "" THEN g.rs ELSE old + ExprVal(a) * size
  IN  [g EXCEPT !.labsyms = IF equ THEN @ + 1 ELSE @,
                !.equ = IF equ THEN old ELSE @,
                !.rs = new]

handle_rs8(g, a) == new_setoffset_size(g, FALSE, a, 1)

handle_rs16(g, a) == new_setoffset_size(g, FALSE, a, 2)

handle_rs32(g, a) == new_setoffset_size(g, FALSE, a, 4)

\* offs_directive(s,"rs"): rs, or rs with a one-character extension
offs_directive(d) == d \in {"rs", "rs.b", "rs.w", "rs.l", "rs.x"}

\* label rs[.ext] <n>: the size from the extension, 2 without one
new_setoffset(g, d, a) ==
  CASE d = "rs"   -> new_setoffset_size(g, TRUE, a, 2)
    [] d = "rs.b" -> new_setoffset_size(g, TRUE, a, 1)
    [] d = "rs.w" -> new_setoffset_size(g, TRUE, a, 2)
    [] d = "rs.l" -> new_setoffset_size(g, TRUE, a, 4)
    [] OTHER      -> new_setoffset_size(Err(g, "invalid_extension"),
                                        TRUE, a, 1)

\* ------------------------------------------------- get_local_label
\* characters of a label token; NUL is read at and after its end
Alphabet == {"a", "1", ".", ":", "$", "+", "-", " "}
NUL == "NUL"

RECURSIVE SeqsUpTo(_)
SeqsUpTo(n) ==
  IF n = 0 THEN {<<>>}
  ELSE LET shorter == SeqsUpTo(n - 1)
       IN  shorter \cup { Append(t, c) : t \in shorter, c \in Alphabet }

Tokens == SeqsUpTo(MaxTok) \ {<<>>}

Ch(t, i) == IF i >= 1 /\ i <= Len(t) THEN t[i] ELSE NUL

local_char == "."

isdigit(c) == c \in {"0", "1", "2", "3", "4", "5", "6", "7", "8", "9"}
ISIDSTART(c) == c \in {"a", "."}
ISIDCHAR(c) == c \in {"a", "1"}
isspace(c) == c = " "

RECURSIVE skip(_, _)
skip(t, i) == IF isspace(Ch(t, i)) THEN skip(t, i + 1) ELSE i

RECURSIVE SkipIdChars(_, _)
SkipIdChars(t, i) == IF ISIDCHAR(Ch(t, i)) THEN SkipIdChars(t, i + 1) ELSE i

\* position behind the local part starting at p, 0 for NULL
skip_local(t, p) ==
  IF ISIDSTART(Ch(t, p)) \/ isdigit(Ch(t, p)) THEN SkipIdChars(t, p + 1)
  ELSE 0

\* unsigned arithmetic on 32 bits, a value being <<high, low>> 16-bit halves
U32(n) == <<(n \div 65536) % 65536, n % 65536>>

UInc(u) ==
  IF u[2] < 65535 THEN <<u[1], u[2] + 1>> ELSE <<(u[1] + 1) % 65536, 0>>

UDecr(u) ==
  IF u[2] > 0 THEN <<u[1], u[2] - 1>> ELSE <<(u[1] + 65535) % 65536, 65535>>

\* sprintf(refnostr,"%u",refno)
RECURSIVE UFmt(_)
UFmt(u) ==
  LET t == (u[1] % 10) * 65536 + u[2]
      q == <<u[1] \div 10, t \div 10>>
  IN  IF u[1] = 0 /\ u[2] < 10 THEN <<DigitChar(u[2])>>
      ELSE Append(UFmt(q), DigitChar(t % 10))

SubTok(t, from, len) == SubSeq(t, from, from + len - 1)

\* the while loop over the markers following the first one
RECURSIVE AnonRun(_, _, _)
AnonRun(t, s, refno) ==
  IF Ch(t, s) = "+" THEN AnonRun(t, s + 1, UInc(refno))
  ELSE IF Ch(t, s) = "-" THEN AnonRun(t, s + 1, UDecr(refno))
  ELSE [refno |-> refno, s |-> s]

\* variant: a leading "-" starts one below the counter
anon_ref_below(t, s, c) ==
  LET first == IF Ch(t, s) = "+" THEN UInc(U32(c)) ELSE UDecr(U32(c))
      r == AnonRun(t, s + 1, first)
  IN  [kind |-> "anon", glob |-> <<":">>, loc |-> UFmt(r.refno),
       next |-> skip(t, r.s)]

\* lines 314-326: anonymous reference, s at the first marker
anon_ref(t, s, c) ==
  LET first == IF Ch(t, s) = "+" THEN UInc(U32(c)) ELSE U32(c)
      r == AnonRun(t, s + 1, first)
  IN  [kind |-> "anon", glob |-> <<":">>, loc |-> UFmt(r.refno),
       next |-> skip(t, r.s)]

NoLabel == [kind |-> "none", glob |-> <<>>, loc |-> <<>>, next |-> 1]

\* get_local_label(n,&start) on the token t with the counter at c; the
\* result names the arguments handed to make_local_label and the new start
get_local_label(t, c) ==
  LET s == 1
      p == skip_local(t, s)
  IN  IF p # 0 /\ Ch(t, p) = ":" /\ ISIDSTART(Ch(t, s))
         /\ Ch(t, s) # local_char /\ Ch(t, p - 1) # "$"
      THEN LET s2 == p + 1
               p2 == skip_local(t, s2)
           IN  IF p2 # 0
               THEN [kind |-> "global_local",
                     glob |-> SubTok(t, 1, (s2 - 1) - 1),
                     loc |-> SubTok(t, s2, IF Ch(t, p2 - 1) = "$"
                                           THEN (p2 - 1) - s2 ELSE p2 - s2),
                     next |-> skip(t, p2)]
               ELSE NoLabel
      ELSE IF p # 0 /\ p > s + 1 /\ Ch(t, s) = local_char
      THEN [kind |-> "local", glob |-> <<>>,
            loc |-> SubTok(t, s + 1, p - (s + 1)), next |-> skip(t, p)]
      ELSE IF p # 0 /\ p > s /\ Ch(t, p) = "$"
      THEN [kind |-> "local", glob |-> <<>>,
            loc |-> SubTok(t, s, ((p + 1) - 1) - s), next |-> skip(t, p + 1)]
      ELSE IF Ch(t, s) = ":" /\ Ch(t, s + 1) \in {"+", "-"}
      THEN anon_ref(t, s + 1, c)
      ELSE NoLabel

\* ------------------------------------------------------------- parse()
\* parse_label_or_pc: a bare ":" in column one defines an anonymous label
\* and pre-increments the counter; the label name itself is only built
parse_label_or_pc(g, line) ==
  IF line.lab = "anon" THEN [g EXCEPT !.anon_labno = @ + 1] ELSE g

\* handle_iif: evaluates its expression; 0 discards the rest of the line
handle_iif(g, line) ==
  IF line.iif = "none" THEN g ELSE eval_ifexp(g, line.iif)

\* directives[idx].func(skip(line))
DispatchDirective(g, d, a) ==
  LET h == [g EXCEPT !.handler = d]
  IN CASE d = "if"      -> ifexp(h, a)
       [] d = "ifdef"   -> ifdef(h, a)
       [] d = "ifmac"   -> ifmacro(h, a)
       [] d = "ifstreq" -> ifc(h, a)
       [] d = "ifstr"   -> handle_ifnb(h, a)
       [] d = "else"    -> handle_else(h)
       [] d = "elseif"  -> handle_elseif(h)
       [] d = "endif"   -> handle_endif(h)
       [] d = "module"  -> handle_module(h)
       [] d = "modend"  -> handle_endmodule(h)
       [] d = "fail"    -> handle_fail(h)
       [] d = "end"     -> handle_end(h)
       [] d = "inform"  -> handle_inform(h, a)
       [] d = "rsreset" -> handle_rsreset(h)
       [] d = "rsset"   -> handle_rsset(h, a)
       [] d = "rseven"  -> handle_rseven(h)
       [] d = "rs"      -> handle_rs16(h, a)
       [] d = "rs.b"    -> handle_rs8(h, a)
       [] d = "rs.w"    -> handle_rs16(h, a)
       [] d = "rs.l"    -> handle_rs32(h, a)
       [] d = "dc"      -> [h EXCEPT !.atoms = @ + 1]
       [] d = "endm"    -> Err(h, "endm_without_macro")
       [] d = "struct"  -> [h EXCEPT !.structs = @ \cup {LabelName}]
       [] OTHER         -> h

\* variant: the structure template is looked up before the macro
handle_mnemonic_structfirst(g, d, a) ==
  IF d = "" THEN g
  ELSE IF d \in Directives THEN DispatchDirective(g, d, a)
  ELSE IF <<d>> \in g.structs
       THEN [g EXCEPT !.handler = "execute_struct", !.atoms = @ + 1]
  ELSE IF <<d>> \in g.macros THEN [g EXCEPT !.handler = "execute_macro"]
  ELSE IF d = "nop" THEN [g EXCEPT !.atoms = @ + 1]
  ELSE Err(g, "unknown_mnemonic")

\* lines 1647-1724: directive table first, then macro, then structure
\* template, then instruction construction
handle_mnemonic(g, d, a) ==
  IF d = "" THEN g
  ELSE IF d \in Directives THEN DispatchDirective(g, d, a)
  ELSE IF <<d>> \in g.macros THEN [g EXCEPT !.handler = "execute_macro"]
  ELSE IF <<d>> \in g.structs
       THEN [g EXCEPT !.handler = "execute_struct", !.atoms = @ + 1]
  ELSE IF d = "nop" THEN [g EXCEPT !.atoms = @ + 1]
  ELSE Err(g, "unknown_mnemonic")

\* new_labsym + add_atom(new_label_atom): a named label also becomes the
\* scope prefix
plain_label(g, line) ==
  [g EXCEPT !.labsyms = @ + 1, !.atoms = @ + 1,
            !.last_global_label =
               IF line.lab \in {"name", "dname"} THEN LabelText(line) ELSE @]

\* lines 1567-1724: the line is dispatched
parse_dispatch(g, line) ==
  LET g1 == parse_label_or_pc(g, line)
      g2 == handle_iif(g1, line)
      \* what is left of the line after iif
      d  == IF line.iif \in {"none", "T"} THEN line.d ELSE ""
      a  == IF line.iif \in {"none", "T"} THEN line.a ELSE ""
  IN IF line.lab = "none" THEN handle_mnemonic(g2, d, a)
     ELSE CASE d \in {"equ", "set"} -> [g2 EXCEPT !.labsyms = @ + 1]
            [] offs_directive(d) -> new_setoffset(g2, d, a)
            [] d = "macro" ->
                 IF line.lab \in {"name", "dname"}
                 THEN [g2 EXCEPT !.macros = @ \cup {LabelText(line)}]
                 ELSE Err(g2, "ierror")
            [] d = "struct" ->
                 IF line.lab \in {"name", "dname"}
                 THEN [g2 EXCEPT !.structs = @ \cup {LabelText(line)}]
                 ELSE Err(g2, "ierror")
            [] OTHER -> handle_mnemonic(plain_label(g2, line), d, a)

\* variant: else and endif exchanged in the skip branch
parse_skipped_swapped(g, line) ==
  LET g1 == parse_label_or_pc(g, line)
  IN IF line.iif # "none" \/ line.d \notin Directives THEN g1
     ELSE CASE line.d \in IfDirs  -> cond_skipif(g1)
            [] line.d = "else"    -> cond_endif(g1)
            [] line.d = "endif"   -> cond_else(g1)
            [] line.d = "elseif"  ->
                 cond_elseif(eval_ifexp(g1, line.a), line.a = "T")
            [] OTHER -> g1

\* variant: the guard of a skipped if is evaluated before it is ignored
parse_skipped_evalif(g, line) ==
  LET g1 == parse_label_or_pc(g, line)
  IN IF line.iif # "none" \/ line.d \notin Directives THEN g1
     ELSE CASE line.d \in IfDirs  -> cond_skipif(eval_ifexp(g1, line.a))
            [] line.d = "else"    -> cond_else(g1)
            [] line.d = "endif"   -> cond_endif(g1)
            [] line.d = "elseif"  ->
                 cond_elseif(eval_ifexp(g1, line.a), line.a = "T")
            [] OTHER -> g1

\* lines 1546-1565: the line is skipped; only the directive name is looked
\* up.  A token following `iif` is not at the directive position.
parse_skipped(g, line) ==
  LET g1 == parse_label_or_pc(g, line)
  IN IF line.iif # "none" \/ line.d \notin Directives THEN g1
     ELSE CASE line.d \in IfDirs  -> cond_skipif(g1)
            [] line.d = "else"    -> cond_else(g1)
            [] line.d = "endif"   -> cond_endif(g1)
            [] line.d = "elseif"  ->
                 cond_elseif(eval_ifexp(g1, line.a), line.a = "T")
            [] OTHER -> g1

\* variant: the conditional gate is missing
parse_line_nogate(g, line) ==
  IF g.parse_end THEN g ELSE parse_dispatch(g, line)

\* variant: the stop flag is not tested
parse_line_nostop(g, line) ==
  IF ~cond_state(g.cond) THEN parse_skipped(g, line)
  ELSE parse_dispatch(g, line)

\* one iteration of the while loop of parse()
parse_line(g, line) ==
  IF g.parse_end THEN g
  ELSE IF ~cond_state(g.cond) THEN parse_skipped(g, line)
  ELSE parse_dispatch(g, line)

\* ------------------------------------------- history of the branches
\* the conditional directive the driver sees at the directive position
CtlRole(line, active) ==
  LET d == IF active
           THEN (IF line.iif \in {"none", "T"} THEN line.d ELSE "")
           ELSE (IF line.iif = "none" THEN line.d ELSE "")
  IN  IF d \in IfDirs THEN "if"
      ELSE IF d \in {"else", "elseif", "endif"} THEN d ELSE ""

\* One entry per open frame: cur is how the current branch was entered
\* ("T" guard evaluated true, "F" guard false or not evaluated, "E" else),
\* prior: an earlier branch of the chain had a guard that evaluated true,
\* done: an earlier branch had a line dispatched, now: the current one has.
ChainStep(ch, line, active, stopped, c0, c1, e1) ==
  IF stopped THEN ch
  ELSE
    LET role == CtlRole(line, active)
        marked == IF active /\ role \notin {"else", "elseif", "endif"}
                  THEN [i \in 1..Len(ch) |-> [ch[i] EXCEPT !.now = TRUE]]
                  ELSE ch
        top == marked[Len(marked)]
    IN  IF Len(c1) = Len(c0) + 1
        THEN Append(marked,
               [cur |-> IF active /\ line.a = "T" THEN "T" ELSE "F",
                prior |-> FALSE, done |-> FALSE, now |-> FALSE])
        ELSE IF Len(c1) = Len(c0) - 1 /\ marked # <<>>
        THEN SubSeq(marked, 1, Len(marked) - 1)
        ELSE IF role \in {"else", "elseif"} /\ marked # <<>>
                /\ "else_after_else" \notin e1
        THEN [marked EXCEPT ![Len(marked)] =
               [cur |-> IF role = "else" THEN "E"
                        ELSE IF ~active /\ line.a = "T" THEN "T" ELSE "F",
                prior |-> top.prior \/ top.cur = "T",
                done |-> top.done \/ top.now,
                now |-> FALSE]]
        ELSE marked

\* ------------------------------------------------------------ the driver
NoLine == [lab |-> "none", iif |-> "none", d |-> "", a |-> ""]
NoRes == [kind |-> "unset", glob |-> <<>>, loc |-> <<>>, next |-> 0]

\* the globals handed to one step, with the per-step outputs cleared
Globals ==
  [parse_end |-> parse_end, cond |-> cond, anon_labno |-> anon_labno,
   inline_stack |-> inline_stack, inline_stack_index |-> inline_stack_index,
   module_id |-> module_id, last_global_label |-> last_global_label,
   saved_last_global_label |-> saved_last_global_label, rs |-> rs,
   align_data |-> align_data, equ |-> -1,
   macros |-> macros, structs |-> structs, labsyms |-> labsyms,
   atoms |-> atoms, cond_checks |-> cond_checks,
   errs |-> {}, evals |-> 0, handler |-> "", ub |-> "intact"]

Store(g) ==
  /\ parse_end' = g.parse_end
  /\ cond' = g.cond
  /\ anon_labno' = g.anon_labno
  /\ inline_stack' = g.inline_stack
  /\ inline_stack_index' = g.inline_stack_index
  /\ module_id' = g.module_id
  /\ last_global_label' = g.last_global_label
  /\ saved_last_global_label' = g.saved_last_global_label
  /\ rs' = g.rs
  /\ align_data' = g.align_data
  /\ macros' = g.macros
  /\ structs' = g.structs
  /\ labsyms' = g.labsyms
  /\ atoms' = g.atoms
  /\ cond_checks' = g.cond_checks
  /\ errs' = g.errs

\* the outcomes of the writes to inl_lab_name in one line: ids are given
\* in order, so no text printed is longer than the next id's
sprintf_outcomes(next_id) ==
  IF Len(InlLabName(next_id)) + 1 <= inl_lab_name_size
  THEN {"intact"}
  ELSE {"intact", "clobbered"}

\* while (line = read_next_line()) { ... }
\* last.outer records the prefix in effect when the outermost module opened
ReadLine(input) ==
  /\ pc = "parsing"
  /\ remaining > 0
  /\ \E line \in input, ub \in sprintf_outcomes(module_id) :
       LET g == parse_line([Globals EXCEPT !.ub = ub], line)
       IN  /\ Store(g)
           /\ last' = [read |-> TRUE, line |-> line,
                       active |-> cond_state(cond), stopped |-> parse_end,
                       handler |-> g.handler, evals |-> g.evals,
                       equ |-> g.equ, rs0 |-> rs,
                       outer |-> IF inline_stack_index = 0
                                    /\ g.inline_stack_index = 1
                                 THEN last_global_label
                                 ELSE last.outer]
           /\ chain' = ChainStep(chain, line, cond_state(cond), parse_end,
                                 cond, g.cond, g.errs)
  /\ remaining' = remaining - 1
  /\ UNCHANGED <<pc, tok, res>>

\* variant: the check is left out once the stop flag is set
parse_eof_unless_stopped(g) == IF g.parse_end THEN g ELSE cond_check(g)

\* line 1727, after the loop: check for open conditional blocks
parse_eof(g) == cond_check(g)

\* read_next_line() returned NULL: leave the loop and return
EndOfInput ==
  /\ pc = "parsing"
  /\ remaining = 0
  /\ Store(parse_eof(Globals))
  /\ pc' = "done"
  /\ UNCHANGED <<remaining, last, chain, tok, res>>

InitGlobals ==
  /\ parse_end = FALSE
  /\ cond = <<>>
  /\ last_global_label = <<>>
  /\ saved_last_global_label = NULL
  /\ rs = 0
  /\ macros = {}
  /\ structs = {}
  /\ labsyms = 0
  /\ atoms = 0
  /\ cond_checks = 0
  /\ errs = {}
  /\ last = [read |-> FALSE, line |-> NoLine, active |-> TRUE,
             stopped |-> FALSE, handler |-> "", evals |-> 0,
             equ |-> -1, rs0 |-> 0, outer |-> <<>>]
  /\ chain = <<>>

\* state after init_syntax(), with an input of up to MaxLines lines
Init ==
  /\ InitGlobals
  /\ align_data = FALSE
  /\ pc = "parsing"
  /\ anon_labno = 0
  /\ tok = <<>>
  /\ res = NoRes
  /\ remaining \in 0..MaxLines
  /\ inline_stack = [i \in 0..(INLSTACKSIZE - 1) |-> 0]
  /\ inline_stack_index = 0
  /\ module_id = 0

\* conditional assembly: if / elseif / else / endif around ordinary lines
ReadCondLine == ReadLine(CondLines)

Next == ReadCondLine \/ EndOfInput

Spec == Init /\ [][Next]_vars

\* stop flag: fail / end / inform among state-changing lines
ReadStopLine == ReadLine(StopLines)

NextStop == ReadStopLine \/ EndOfInput

SpecStop == Init /\ [][NextStop]_vars

\* module stack: the runs start after INLSTACKSIZE - StartBelow module
\* lines, either all still open or all closed again by modend lines
InitMod ==
  /\ InitGlobals
  /\ align_data = FALSE
  /\ pc = "parsing"
  /\ anon_labno = 0
  /\ tok = <<>>
  /\ res = NoRes
  /\ remaining \in 0..MaxLines
  /\ module_id = INLSTACKSIZE - StartBelow
  /\ inline_stack = [i \in 0..(INLSTACKSIZE - 1) |->
                       IF i < module_id THEN i ELSE 0]
  /\ inline_stack_index \in {0, module_id}

ReadModLine == ReadLine(ModLines)

NextMod == ReadModLine \/ EndOfInput

SpecMod == InitMod /\ [][NextMod]_vars

\* label scanner: get_local_label applied to one token
InitLbl ==
  /\ InitGlobals
  /\ align_data = FALSE
  /\ pc = "scan"
  /\ remaining = 0
  /\ inline_stack = [i \in 0..(INLSTACKSIZE - 1) |-> 0]
  /\ inline_stack_index = 0
  /\ module_id = 0
  /\ anon_labno \in 0..MaxAnon
  /\ tok \in Tokens
  /\ res = NoRes

ScanLabel ==
  /\ pc = "scan"
  /\ res' = get_local_label(tok, anon_labno)
  /\ pc' = "scanned"
  /\ UNCHANGED <<remaining, parse_end, cond, anon_labno, inline_stack,
                 inline_stack_index, module_id, last_global_label,
                 saved_last_global_label, rs, align_data, macros, structs, labsyms,
                 atoms, cond_checks, errs, last, chain, tok>>

NextLbl == ScanLabel

SpecLbl == InitLbl /\ [][NextLbl]_vars

\* --------------------------------------- parse_label_or_pc on line text
\* characters of the start of a line
LineAlphabet == {"a", ":", "+", "-", " ", "*"}

RECURSIVE TextsUpTo(_, _)
TextsUpTo(A, n) ==
  IF n = 0 THEN {<<>>}
  ELSE LET shorter == TextsUpTo(A, n - 1)
       IN  shorter \cup { Append(t, c) : t \in shorter, c \in A }

current_pc_char == "*"

\* parse_identifier: an identifier start followed by identifier characters
parse_identifier(t, s) ==
  IF ISIDSTART(Ch(t, s)) THEN SkipIdChars(t, s + 1) ELSE 0

\* parse_symbol: a local-label spelling first, an identifier otherwise;
\* the position behind the symbol, 0 when there is none
parse_symbol(t, s, c) ==
  LET r == get_local_label(SubSeq(t, s, Len(t)), c)
  IN  IF r.kind # "none" THEN s + r.next - 1 ELSE parse_identifier(t, s)

NoName(c) == [kind |-> "none", start |-> 1, anon |-> c]

\* parse_label_or_pc(&start) on the text t of a line, the counter at c:
\* what was recognised, the new start position, and the counter
parse_label_or_pc_text(t, c) ==
  IF Ch(t, 1) = ":"
  THEN [kind |-> "anon", start |-> skip(t, 2), anon |-> c + 1]
  ELSE
    LET lvalid == ~isspace(Ch(t, 1))
        s1 == IF isspace(Ch(t, 1)) THEN skip(t, 1) ELSE 1
        e  == parse_symbol(t, s1, c)
        s2 == skip(t, e)
    IN  IF e # 0
        THEN IF Ch(t, s2) = ":"
             THEN IF Ch(t, s2 + 1) \in {"+", "-"} THEN NoName(c)
                  ELSE [kind |-> "label", start |-> s2 + 1, anon |-> c]
             ELSE IF ~lvalid THEN NoName(c)
                  ELSE [kind |-> "label", start |-> s2, anon |-> c]
        ELSE IF Ch(t, s1) = current_pc_char /\ ~ISIDCHAR(Ch(t, s1 + 1))
             THEN [kind |-> "pc", start |-> skip(t, s1 + 1), anon |-> c]
             ELSE NoName(c)

\* every variable the pure-function runs leave alone
PureFrame ==
  UNCHANGED <<remaining, parse_end, cond, inline_stack, inline_stack_index,
              module_id, last_global_label, saved_last_global_label, rs, align_data,
              macros, structs, labsyms, atoms, cond_checks, errs, last,
              chain, tok>>

\* start of a pure-function run on one input drawn from the given set
PureInit(inputs) ==
  /\ InitGlobals
  /\ align_data = FALSE
  /\ pc = "scan"
  /\ remaining = 0
  /\ inline_stack = [i \in 0..(INLSTACKSIZE - 1) |-> 0]
  /\ inline_stack_index = 0
  /\ module_id = 0
  /\ tok \in inputs
  /\ res = NoRes

\* label recognition: parse_label_or_pc applied to the start of one line
InitPlp == PureInit(TextsUpTo(LineAlphabet, MaxText) \ {<<>>}) /\ anon_labno = 0

ScanLineStart ==
  /\ pc = "scan"
  /\ res' = parse_label_or_pc_text(tok, anon_labno)
  /\ anon_labno' = res'.anon
  /\ pc' = "scanned"
  /\ PureFrame

SpecPlp == InitPlp /\ [][ScanLineStart]_vars

SpecMnem == Init /\ [][ReadLine(MnemLines) \/ EndOfInput]_vars

\* ------------------------------------------------------- skip_operand
commentchar == ";"

\* skip_string: from the opening delimiter at s to the position behind the
\* closing one, a doubled delimiter standing for the delimiter itself; the
\* end of the text when the string is not terminated
RECURSIVE skip_string(_, _, _)
skip_string(t, s, delim) ==
  LET i == s + 1
  IN  IF Ch(t, i) = NUL THEN i
      ELSE IF Ch(t, i) = delim /\ Ch(t, i + 1) # delim THEN i + 1
      ELSE IF Ch(t, i) = delim THEN skip_string(t, i + 1, delim)
      ELSE skip_string(t, i, delim)

\* the loop of skip_operand at position s, par_cnt parentheses open and the
\* diagnostics e raised so far: where it stops, and the diagnostics
RECURSIVE skip_operand_loop(_, _, _, _)
skip_operand_loop(t, s, par_cnt, e) ==
  LET c == Ch(t, s)
  IN  IF c = "(" THEN skip_operand_loop(t, s + 1, par_cnt + 1, e)
      ELSE IF c = ")"
        THEN IF par_cnt > 0
             THEN skip_operand_loop(t, s + 1, par_cnt - 1, e)
             ELSE skip_operand_loop(t, s + 1, par_cnt, e \cup {"syntax_3"})
      ELSE IF c \in {"'", "\""}
        THEN skip_operand_loop(t, skip_string(t, s, c), par_cnt, e)
      ELSE IF c = NUL \/ (par_cnt = 0 /\ c \in {",", commentchar})
        THEN [next |-> s,
              errs |-> IF par_cnt # 0 THEN e \cup {"syntax_4"} ELSE e]
      ELSE skip_operand_loop(t, s + 1, par_cnt, e)

\* variant: the parenthesis count starts at one
skip_operand_open(t, s) == skip_operand_loop(t, s, 1, {})

skip_operand(t, s) == skip_operand_loop(t, s, 0, {})

\* ------------------------------------- operands of an instruction line
MAX_OPERANDS == 6

ISEOL(c) == c = NUL \/ c = commentchar

\* oplen(e,s): length of the span from s to e without trailing blanks
RECURSIVE oplen(_, _, _)
oplen(t, e, s) ==
  IF s # e /\ isspace(Ch(t, e - 1)) THEN oplen(t, e - 1, s) ELSE e - s

\* lines 1677-1703 (blanks not allowed around operands, no empty
\* operands): the spans skip_operand delimits, the commas stepped over
\* and the diagnostics raised
RECURSIVE read_operands(_, _, _, _)
read_operands(t, s, op_cnt, out) ==
  IF ISEOL(Ch(t, s)) \/ op_cnt >= MAX_OPERANDS THEN out
  ELSE
    LET r == skip_operand(t, s)
        empty == oplen(t, r.next, s) <= 0
        o1 == [out EXCEPT !.spans = Append(@, <<s, r.next>>),
                          !.errs = (@ \cup r.errs) \cup
                                   (IF empty THEN {"syntax_5"} ELSE {})]
        n1 == IF empty THEN op_cnt ELSE op_cnt + 1
    IN  IF Ch(t, r.next) # "," THEN o1
        ELSE read_operands(t, r.next + 1, n1,
                           [o1 EXCEPT !.cuts = @ \cup {r.next}])

\* characters of an operand text
OperandAlphabet == {"a", ",", "(", ")", "'", "\""}

\* ----------------------------------------------------- execute_struct
\* atom types of a structure template
AtomTypes == {"DATADEF", "SPACE", "DATA", "INSTRUCTION", "LABEL"}

\* characters of the operand text of a template use: "5" is part of a valid
\* operand, "x" makes an operand or expression invalid
StructAlphabet == {"5", "x", ",", " "}

\* parse_operand / parse_expr_tmplab / parse_constexpr accept the text
parse_operand(text) == \A i \in 1..Len(text) : text[i] # "x"

\* clone_atom(p): the i-th atom of the template with its stored default
clone_atom(ty, i) == [type |-> ty, field |-> i, val |-> <<"default">>]

\* variant: an empty operand emits nothing
struct_atom_noclone(ty, i, t, s, out) ==
  LET opp == skip(t, s)
      e   == skip_operand(t, opp)
      opl == e.next - opp
      text == SubSeq(t, opp, e.next - 1)
      new == [type |-> ty, field |-> i, val |-> text]
      o1 == [out EXCEPT !.errs = @ \cup e.errs]
      o2 == IF opl > 0
            THEN IF ty = "DATADEF"
                 THEN IF parse_operand(text)
                      THEN [o1 EXCEPT !.atoms = Append(@, new)]
                      ELSE [o1 EXCEPT !.errs = @ \cup {"syntax_8"}]
                 ELSE [o1 EXCEPT !.atoms = Append(@, new),
                                 !.errs = IF parse_operand(text) THEN @
                                          ELSE @ \cup {"expr"}]
            ELSE o1
      s1 == skip(t, e.next)
  IN  [next |-> IF Ch(t, s1) = "," THEN s1 + 1 ELSE s1, out |-> o2]

\* lines 1401-1473: one DATA, SPACE or DATADEF atom of the template, the
\* i-th, at position s of the operand text t: a non-empty operand
\* initialises a new atom, an empty one clones the template's atom
struct_atom(ty, i, t, s, out) ==
  LET opp == skip(t, s)
      e   == skip_operand(t, opp)
      opl == e.next - opp
      text == SubSeq(t, opp, e.next - 1)
      new == [type |-> ty, field |-> i, val |-> text]
      o1 == [out EXCEPT !.errs = @ \cup e.errs]
      o2 == IF opl > 0
            THEN IF ty = "DATADEF"
                 THEN IF parse_operand(text)
                      THEN [o1 EXCEPT !.atoms = Append(@, new)]
                      ELSE [o1 EXCEPT !.errs = @ \cup {"syntax_8"}]
                 ELSE [o1 EXCEPT !.atoms = Append(@, new),
                                 !.errs = IF parse_operand(text) THEN @
                                          ELSE @ \cup {"expr"}]
            ELSE [o1 EXCEPT !.atoms = Append(@, clone_atom(ty, i))]
      s1 == skip(t, e.next)
  IN  [next |-> IF Ch(t, s1) = "," THEN s1 + 1 ELSE s1, out |-> o2]

\* the loop of execute_struct over the atoms fs of the template, at atom i
\* and position s of the operand text t: the atoms added and the
\* diagnostics raised
RECURSIVE execute_struct(_, _, _, _, _)
execute_struct(fs, i, t, s, out) ==
  IF i > Len(fs) THEN out
  ELSE IF fs[i] \in {"DATA", "SPACE", "DATADEF"}
    THEN LET r == struct_atom(fs[i], i, t, s, out)
         IN  execute_struct(fs, i + 1, t, r.next, r.out)
  ELSE IF fs[i] = "INSTRUCTION"
    THEN execute_struct(fs, i + 1, t, s,
                        [out EXCEPT !.errs = @ \cup {"syntax_20"}])
  ELSE execute_struct(fs, i + 1, t, s, out)

\* template instantiation: one template and one operand text
InitStruct ==
  /\ PureInit({ [fields |-> f, s |-> t] :
                  f \in TextsUpTo(AtomTypes, MaxFields) \ {<<>>},
                  t \in TextsUpTo(StructAlphabet, MaxStructText) })
  /\ anon_labno = 0

InstantiateStruct ==
  /\ pc = "scan"
  /\ res' = execute_struct(tok.fields, 1, tok.s, 1,
                           [atoms |-> <<>>, errs |-> {}])
  /\ pc' = "scanned"
  /\ UNCHANGED anon_labno
  /\ PureFrame

SpecStruct == InitStruct /\ [][InstantiateStruct]_vars

\* ------------------------------------------------------- expand_macro
esc_sequences == TRUE

maxmacparams == 9

\* unique ids of macro invocations (an unsigned long counter)
MacroIds == {1, 999999, 1000000, 10000000}

\* invocation contexts: id, up to two positional arguments (empty, "p" or
\* "pq"), first qualifier (none or "w"), declared names (none or a)
MacroSources ==
  LET texts == {<<>>, <<"p">>, <<"p", "q">>}
  IN  { [id |-> i, param |-> p, qual |-> q, argnames |-> n] :
          i \in MacroIds,
          p \in {<<>>} \cup { <<x>> : x \in texts }
                 \cup { <<x, y>> : x \in texts, y \in texts },
          q \in {<<>>, <<"w">>}, n \in {<<>>, <<<<"a">>>>} }

\* the text at the line pointer: each escape form, an undeclared name, a
\* lone "\?" and ordinary text
MacroEscapes ==
  { <<"\\", "\\">>, <<"\\", "@">>, <<"\\", "#">>,
    <<"\\", "?", "0">>, <<"\\", "?", "1">>, <<"\\", "?", "2">>,
    <<"\\", "?", "a">>, <<"\\", "?", "a", "a">>, <<"\\", "?">>,
    <<"\\", "0">>, <<"\\", "1">>, <<"\\", "a">>, <<"\\", "a", "a">>,
    <<"a">> }

DigitVal(c) == CHOOSE n \in 0..9 : DigitChar(n) = c

\* skip_identifier: the position behind an identifier at s, 0 for NULL
skip_identifier(t, s) ==
  IF ISIDSTART(Ch(t, s)) THEN SkipIdChars(t, s + 1) ELSE 0

\* find_macarg_name: index of a declared parameter name, -1 when unknown
find_macarg_name(src, name) ==
  IF \E i \in 1..Len(src.argnames) : src.argnames[i] = name
  THEN (CHOOSE i \in 1..Len(src.argnames) : src.argnames[i] = name) - 1
  ELSE -1

\* copy_macro_param / copy_macro_qual: copy the text while it fits; -1
\* when it does not fit, the number of characters otherwise
copy_text(text, dlen) ==
  IF Len(text) > dlen
  THEN [nc |-> -1, d |-> SubSeq(text, 1, dlen)]
  ELSE [nc |-> Len(text), d |-> text]

copy_macro_param(src, n, dlen) ==
  IF n < Len(src.param) /\ n < maxmacparams
  THEN copy_text(src.param[n + 1], dlen)
  ELSE [nc |-> 0, d |-> <<>>]

copy_macro_qual(src, n, dlen) == copy_text(src.qual, dlen)

count_passed_macargs(src) ==
  Cardinality({ i \in 1..Len(src.param) : Len(src.param[i]) > 0 })

\* the flag written for parameter index n (from 0)
arg_flag(src, n) ==
  IF n < Len(src.param) /\ n < maxmacparams /\ Len(src.param[n + 1]) > 0
  THEN "1" ELSE "0"

\* macro_arg_defined: type 1 takes a parameter name, type 0 a digit
macro_arg_defined(src, arg, type) ==
  IF type = 1
  THEN LET n == find_macarg_name(src, arg)
       IN  IF n >= 0 THEN [nc |-> 1, d |-> <<arg_flag(src, n)>>]
           ELSE [nc |-> 0, d |-> <<>>]
  ELSE LET n == DigitVal(arg[1])
       IN  IF n = 0
           THEN [nc |-> 1, d |-> <<IF Len(src.qual) > 0 THEN "1" ELSE "0">>]
           ELSE [nc |-> 1, d |-> <<arg_flag(src, n - 1)>>]

\* variant: the id is cut to its last digit
sprintf_id_lastdigit(id) == <<"_">> \o Pad(Dec(id % 10), 6) \o <<NUL>>

\* sprintf(d,"_%06lu",src->id): the text and its terminating NUL
sprintf_id(id) == <<"_">> \o Pad(Dec(id), 6) \o <<NUL>>

\* lines 1864-1867: out of space, or the line pointer is advanced to s
expand_result(r, s, dlen) ==
  IF r.nc >= dlen THEN [nc |-> -1, d |-> r.d, line |-> 1]
  ELSE IF r.nc >= 0 THEN [nc |-> r.nc, d |-> r.d, line |-> s]
  ELSE [nc |-> r.nc, d |-> r.d, line |-> 1]

\* expand_macro(src,&line,d,dlen) on the text t at the line pointer: the
\* returned count, what was stored into d, and the line pointer afterwards
\* (1: not advanced)
expand_macro(src, t, dlen) ==
  IF Ch(t, 1) # "\\" THEN [nc |-> 0, d |-> <<>>, line |-> 1]
  ELSE LET c == Ch(t, 2) IN
    IF c = "\\" THEN
      IF dlen >= 1
      THEN IF esc_sequences
           THEN IF dlen >= 2
                THEN expand_result([nc |-> 2, d |-> <<"\\", "\\">>], 3, dlen)
                ELSE expand_result([nc |-> -1, d |-> <<"\\">>], 3, dlen)
           ELSE expand_result([nc |-> 1, d |-> <<"\\">>], 3, dlen)
      ELSE expand_result([nc |-> -1, d |-> <<>>], 2, dlen)
    ELSE IF c = "@" THEN
      IF dlen > 7
      THEN expand_result([nc |-> Len(sprintf_id(src.id)) - 1,
                          d |-> sprintf_id(src.id)], 3, dlen)
      ELSE expand_result([nc |-> -1, d |-> <<>>], 2, dlen)
    ELSE IF c = "#" THEN
      IF dlen > 3
      THEN LET w == Dec(count_passed_macargs(src)) \o <<NUL>>
           IN  expand_result([nc |-> Len(w) - 1, d |-> w], 3, dlen)
      ELSE expand_result([nc |-> -1, d |-> <<>>], 2, dlen)
    ELSE IF c = "?" /\ dlen >= 1 THEN
      IF isdigit(Ch(t, 3)) /\ dlen > 3
      THEN expand_result(macro_arg_defined(src, <<Ch(t, 3)>>, 0), 4, dlen)
      ELSE IF skip_identifier(t, 3) # 0
      THEN LET end == skip_identifier(t, 3)
           IN  expand_result(
                 macro_arg_defined(src, SubSeq(t, 3, end - 1), 1), end, dlen)
      ELSE expand_result([nc |-> -1, d |-> <<>>], 2, dlen)
    ELSE IF isdigit(c) THEN
      IF c = "0" THEN expand_result(copy_macro_qual(src, 0, dlen), 3, dlen)
      ELSE expand_result(copy_macro_param(src, DigitVal(c) - 1, dlen), 3, dlen)
    ELSE IF skip_identifier(t, 2) # 0
            /\ find_macarg_name(src,
                 SubSeq(t, 2, skip_identifier(t, 2) - 1)) >= 0 THEN
      LET end == skip_identifier(t, 2)
          n == find_macarg_name(src, SubSeq(t, 2, end - 1))
      IN  expand_result(copy_macro_param(src, n, dlen), end, dlen)
    ELSE expand_result([nc |-> 0, d |-> <<>>], 2, dlen)

\* macro expansion: one escape, one invocation context, one buffer size
InitMac ==
  /\ PureInit({ [src |-> m, line |-> t, dlen |-> n] :
                  m \in MacroSources, t \in MacroEscapes, n \in 0..MaxDlen })
  /\ anon_labno = 0

ExpandEscape ==
  /\ pc = "scan"
  /\ res' = expand_macro(tok.src, tok.line, tok.dlen)
  /\ pc' = "scanned"
  /\ UNCHANGED anon_labno
  /\ PureFrame

SpecMac == InitMac /\ [][ExpandEscape]_vars

\* `\@` expanded in two invocations, with one buffer size
InitUid ==
  /\ LET ids == 0..MaxUid \cup {99999, 100000, 999999, 1000000}
     IN  PureInit({ [a |-> i, b |-> j, dlen |-> n] :
                      i \in ids, j \in ids, n \in 0..MaxDlen })
  /\ anon_labno = 0

ExpandUniqueId ==
  /\ pc = "scan"
  /\ LET src(i) == [id |-> i, param |-> <<>>, qual |-> <<>>,
                     argnames |-> <<>>]
     IN  res' = [a |-> expand_macro(src(tok.a), <<"\\", "@">>, tok.dlen),
                 b |-> expand_macro(src(tok.b), <<"\\", "@">>, tok.dlen)]
  /\ pc' = "scanned"
  /\ UNCHANGED anon_labno
  /\ PureFrame

SpecUid == InitUid /\ [][ExpandUniqueId]_vars

\* operand splitting: one operand text
InitOps == PureInit(TextsUpTo(OperandAlphabet, MaxOperandText) \ {<<>>}) /\ anon_labno = 0

SplitOperands ==
  /\ pc = "scan"
  /\ res' = read_operands(tok, 1, 0,
                          [spans |-> <<>>, cuts |-> {}, errs |-> {}])
  /\ pc' = "scanned"
  /\ UNCHANGED anon_labno
  /\ PureFrame

SpecOps == InitOps /\ [][SplitOperands]_vars

\* ------------------------------------------------------------ do_bind
\* symbol flags: the type in the low three bits, then the binding bits
TYPE_OBJECT == 1
EXPORT == 8
WEAK == 64
LOCAL_FLAG == 128
XDEF == 65536
XREF == 131072

\* the C operator & on non-negative values
RECURSIVE BitAnd(_, _)
BitAnd(a, b) ==
  IF a = 0 \/ b = 0 THEN 0
  ELSE 2 * BitAnd(a \div 2, b \div 2) + (IF a % 2 = 1 /\ b % 2 = 1 THEN 1 ELSE 0)

\* the C operator | on non-negative values
BitOr(a, b) == a + b - BitAnd(a, b)

\* the value of a C comparison
CBool(b) == IF b THEN 1 ELSE 0

\* handle_local, handle_weak, handle_global, handle_xref, handle_xdef
BindOf(dir) ==
  CASE dir = "local"  -> LOCAL_FLAG
    [] dir = "weak"   -> WEAK
    [] dir = "global" -> EXPORT
    [] dir = "xref"   -> BitOr(EXPORT, XREF)
    [] dir = "xdef"   -> BitOr(EXPORT, XDEF)

BindDirs == {"local", "weak", "global", "xref", "xdef"}

\* lines 1114-1115 as C parses them: != binds tighter than &
bind_conflict(flags, bind) ==
  /\ BitAnd(flags, CBool(BitOr(BitOr(EXPORT, WEAK), LOCAL_FLAG) # 0)) # 0
  /\ BitAnd(flags, CBool(BitOr(BitOr(EXPORT, WEAK), LOCAL_FLAG) # bind)) # 0

\* one round of do_bind for the symbol sym: the symbol afterwards and the
\* diagnostics
do_bind(sym, bind) ==
  IF bind_conflict(sym.flags, bind)
  THEN [sym |-> sym, errs |-> {"general_62"}]
  ELSE [sym |-> [sym EXCEPT !.flags = BitOr(@, bind)],
        errs |-> IF BitAnd(bind, XREF) # 0 /\ sym.type # "IMPORT"
                 THEN {"general_85"} ELSE {}]

\* binding directives applied to one symbol: imported or a defined label,
\* of unknown type or an object
InitBind ==
  /\ InitGlobals
  /\ align_data = FALSE
  /\ pc = "binding"
  /\ remaining = MaxBinds
  /\ inline_stack = [i \in 0..(INLSTACKSIZE - 1) |-> 0]
  /\ inline_stack_index = 0
  /\ module_id = 0
  /\ anon_labno = 0
  /\ tok \in { [flags |-> f, type |-> ty] :
                 f \in {0, TYPE_OBJECT},
                 ty \in {"IMPORT", "LABSYM"} }
  /\ res = NoRes

BindSymbol ==
  /\ pc = "binding"
  /\ remaining > 0
  /\ \E dir \in BindDirs :
       LET r == do_bind(tok, BindOf(dir))
       IN  /\ tok' = r.sym
           /\ res' = [kind |-> dir, before |-> tok.flags, errs |-> r.errs]
  /\ remaining' = remaining - 1
  /\ UNCHANGED <<pc, parse_end, cond, anon_labno, inline_stack,
                 inline_stack_index, module_id, last_global_label,
                 saved_last_global_label, rs, align_data, macros, structs, labsyms,
                 atoms, cond_checks, errs, last, chain>>

SpecBind == InitBind /\ [][BindSymbol]_vars

\* offset symbol: the rs family with the data-alignment option on or off
InitRs ==
  /\ InitGlobals
  /\ align_data \in BOOLEAN
  /\ pc = "parsing"
  /\ anon_labno = 0
  /\ tok = <<>>
  /\ res = NoRes
  /\ remaining \in 0..MaxRsLines
  /\ inline_stack = [i \in 0..(INLSTACKSIZE - 1) |-> 0]
  /\ inline_stack_index = 0
  /\ module_id = 0

SpecRs == InitRs /\ [][ReadLine(RsLines) \/ EndOfInput]_vars

SpecIf == Init /\ [][ReadLine(IfLines) \/ EndOfInput]_vars

\* ------------------------------------------------------- module scopes
\* module and modend lines between lines that define global labels
ScopeLines ==
  { L("none", "none", d, "") : d \in {"module", "modend"} } \cup
  { L(lab, "none", "", "") : lab \in {"name", "dname"} }

\* depth 0 after init_syntax(), or after so many module/modend pairs that
\* the next ids are the last ones whose text fits inl_lab_name
InitScope ==
  /\ InitGlobals
  /\ align_data = FALSE
  /\ pc = "parsing"
  /\ anon_labno = 0
  /\ tok = <<>>
  /\ res = NoRes
  /\ remaining \in 0..MaxLines
  /\ module_id \in {0, 10^(inl_lab_name_size - 2) - StartBelow}
  /\ inline_stack = [i \in 0..(INLSTACKSIZE - 1) |->
                       IF i = 0 /\ module_id > 0 THEN module_id - 1 ELSE 0]
  /\ inline_stack_index = 0

SpecScope == InitScope /\ [][ReadLine(ScopeLines) \/ EndOfInput]_vars

\* ================================================================ claims
\* a line was read in this step
LineStep == pc = "parsing" /\ remaining' = remaining - 1

CondDirs == IfDirs \cup {"else", "elseif", "endif"}

\* C1: while the conditional state is inactive, a line only updates the
\* conditional nesting, and only for if*, else, elseif and endif: no
\* directive handler is dispatched, no label symbol or atom is created, no
\* macro or structure definition is started, no atom is emitted.
C1_SkippedLineOnlyTracksNesting ==
  [][ (LineStep /\ ~parse_end /\ ~cond_state(cond)) =>
        /\ last'.handler = ""
        /\ UNCHANGED <<labsyms, atoms, macros, structs, parse_end, rs,
                       inline_stack, inline_stack_index, module_id,
                       last_global_label, saved_last_global_label>>
        /\ (cond' # cond => last'.line.d \in CondDirs) ]_vars

C1_Witness ==
  /\ last.read /\ ~last.active /\ ~last.stopped
  /\ last.line.lab = "name" /\ last.line.d = "macro"
  /\ macros = {}

\* C2: in every open if-chain at most one branch has lines dispatched, and
\* it is the first branch whose guard evaluated true or, when no guard was
\* true, the else branch; a dispatched line satisfies this at every
\* enclosing nesting level.
C2_AtMostOneBranchDispatched ==
  \A i \in 1..Len(chain) :
     /\ ~(chain[i].done /\ chain[i].now)
     /\ chain[i].now => (~chain[i].prior /\ chain[i].cur \in {"T", "E"})

C2_Witness ==
  /\ Len(chain) = 2
  /\ chain[1].now /\ chain[1].cur = "E"
  /\ chain[2].now /\ chain[2].cur = "T"

\* C3: an else or elseif met when the innermost frame has already seen an
\* else is rejected with an error, in a dispatched and in a skipped branch
\* alike, and leaves the frames as they are (dispatching is not re-enabled).
C3_ElseAfterElseRejected ==
  [][ (LineStep /\ ~parse_end /\ cond # <<>> /\ cond[Len(cond)].else_seen
         /\ CtlRole(last'.line, cond_state(cond)) \in {"else", "elseif"}) =>
        ("else_after_else" \in errs' /\ cond' = cond) ]_vars

C3_Witness ==
  /\ last.read /\ ~last.active /\ ~last.stopped
  /\ last.line.d = "elseif" /\ last.line.a = "T"
  /\ "else_after_else" \in errs
  /\ Len(cond) = 1

\* C4 as stated: a line read while the conditional state is inactive
\* causes no guard expression to be evaluated and raises no expression
\* diagnostic.
C4_NoEvaluationWhileSkipping ==
  (last.read /\ ~last.active /\ ~last.stopped) =>
     (last.evals = 0 /\ "expr_not_const" \notin errs)

\* C4 amended: while the conditional state is inactive no if* line has its
\* expression evaluated; an elseif at the directive position has its
\* expression evaluated exactly once, and it is the only skipped line that
\* can raise an expression diagnostic.
C4_OnlyElseifEvaluatedWhileSkipping ==
  (last.read /\ ~last.active /\ ~last.stopped) =>
     /\ last.evals = IF CtlRole(last.line, FALSE) = "elseif" THEN 1 ELSE 0
     /\ ("expr_not_const" \in errs =>
           (CtlRole(last.line, FALSE) = "elseif" /\ last.line.a = "bad"))

C4_Witness ==
  /\ last.read /\ ~last.active /\ ~last.stopped
  /\ last.line.d = "if" /\ last.line.a = "bad"
  /\ last.evals = 0 /\ Len(cond) = 2

\* the stop flag is never cleared, and a line read while it is set changes
\* nothing
StopIsFinal ==
  parse_end =>
    UNCHANGED <<parse_end, cond, inline_stack, inline_stack_index, module_id,
                anon_labno, rs, align_data, macros, structs, labsyms, atoms,
                last_global_label, saved_last_global_label>>

\* C5 as stated: once fail, end or inform with severity 3 has been
\* dispatched the stop flag is set; it is never cleared and every later
\* line is ignored.
C5_StopAfterFailEndInform3 ==
  [][ LineStep =>
        /\ (last'.handler \in {"fail", "end"}
             \/ (last'.handler = "inform"
                   /\ last'.line.a \in {"3", "3nocomma", "3notext"}))
           => parse_end'
        /\ StopIsFinal ]_vars

\* C5 amended: once fail, end, or an inform with severity 3 that has its
\* comma and message text has been dispatched the stop flag is set; it is
\* never cleared and every later line is ignored.
C5_StopAfterFailEndWellFormedInform3 ==
  [][ LineStep =>
        /\ (last'.handler \in {"fail", "end"}
             \/ (last'.handler = "inform" /\ last'.line.a = "3"))
           => parse_end'
        /\ StopIsFinal ]_vars

C5_Witness ==
  /\ last.read /\ last.stopped /\ parse_end
  /\ last.line.d = "module" /\ inline_stack_index = 0
  /\ cond # <<>>

\* C6: the open-conditional check is made exactly once, after the last
\* line was read, and reports an unterminated conditional exactly when the
\* stack is then non-empty, whether or not the stop flag is set.
C6_CondCheckOnceAtEnd ==
  /\ pc = "parsing" => cond_checks = 0
  /\ pc = "done" =>
       /\ cond_checks = 1 /\ remaining = 0
       /\ ("unterminated_cond" \in errs) <=> (cond # <<>>)

C6_Witness ==
  pc = "done" /\ parse_end /\ cond # <<>> /\ "unterminated_cond" \in errs

\* C7: the module depth stays within 0..INLSTACKSIZE; module at depth
\* INLSTACKSIZE and modend at depth 0 report their error and leave the
\* stack, the depth and the scope prefix unchanged.
C7_ModuleDepthBounded ==
  /\ [](inline_stack_index \in 0..INLSTACKSIZE)
  /\ [][ LineStep =>
          /\ (last'.handler = "module" /\ inline_stack_index = INLSTACKSIZE)
               => /\ "module_depth" \in errs'
                  /\ UNCHANGED <<inline_stack, inline_stack_index,
                                 last_global_label, saved_last_global_label>>
          /\ (last'.handler = "modend" /\ inline_stack_index = 0)
               => /\ "modend_without_module" \in errs'
                  /\ UNCHANGED <<inline_stack, inline_stack_index,
                                 last_global_label, saved_last_global_label>>
       ]_vars

C7_Witness ==
  /\ last.handler = "module" /\ "module_depth" \in errs
  /\ inline_stack_index = INLSTACKSIZE

\* C8 as stated: the anonymous counter grows by one exactly when a
\* dispatched line begins with a bare ":", and every other line, skipped
\* lines and lines after the stop flag included, leaves it unchanged.
C8_CounterCountsDispatchedDefinitions ==
  [][ LineStep =>
        anon_labno' = anon_labno +
          (IF ~parse_end /\ cond_state(cond) /\ last'.line.lab = "anon"
           THEN 1 ELSE 0) ]_vars

\* end of the run of "+" / "-" markers that starts at position i
RECURSIVE RunEnd(_, _)
RunEnd(t, i) == IF Ch(t, i) \in {"+", "-"} THEN RunEnd(t, i + 1) ELSE i

IsAnonRef(t) == Ch(t, 1) = ":" /\ Ch(t, 2) \in {"+", "-"}

\* c + (1 if the first marker is "+") + later "+" - later "-"
AnonExpected(t, c) ==
  LET later == 3..(RunEnd(t, 2) - 1)
  IN  c + (IF Ch(t, 2) = "+" THEN 1 ELSE 0)
        + Cardinality({i \in later : t[i] = "+"})
        - Cardinality({i \in later : t[i] = "-"})

\* decimal text of an integer
SignedFmt(n) == IF n >= 0 THEN Dec(n) ELSE <<"-">> \o Dec(0 - n)

\* C9 as stated: ":" followed by a run of markers resolves to the number
\* c + (1 if the first marker is "+") + (later "+") - (later "-"), and
\* resolving never changes the counter.
C9_AnonRefNumber ==
  /\ [](pc = "scanned" /\ IsAnonRef(tok) =>
          /\ res.kind = "anon"
          /\ res.loc = SignedFmt(AnonExpected(tok, anon_labno)))
  /\ [][pc = "scan" => anon_labno' = anon_labno]_vars

\* C9 amended: the reference resolves to that number reduced modulo 2^32
\* (the arithmetic is unsigned, so a run of "-" that goes below zero wraps
\* around), and resolving never changes the counter.
C9_AnonRefNumberMod32 ==
  /\ [](pc = "scanned" /\ IsAnonRef(tok) =>
          /\ res.kind = "anon"
          /\ res.loc = UFmt(U32(AnonExpected(tok, anon_labno)))
          /\ res.next = skip(tok, RunEnd(tok, 2)))
  /\ [][pc = "scan" => anon_labno' = anon_labno]_vars

C9_Witness ==
  /\ pc = "scanned" /\ anon_labno = 1
  /\ tok = <<":", "+">> /\ res.kind = "anon" /\ res.loc = <<"2">>

\* an identifier, a literal ".", then a second identifier that does not
\* start with the local-prefix character and does not end in "$"
IsIdent(t) ==
  /\ t # <<>>
  /\ ISIDSTART(t[1]) /\ t[1] # local_char
  /\ \A i \in 2..Len(t) : ISIDCHAR(t[i])

IsGlobalDotLocal(t, k) ==
  /\ k \in 2..(Len(t) - 1)
  /\ t[k] = "."
  /\ IsIdent(SubSeq(t, 1, k - 1))
  /\ IsIdent(SubSeq(t, k + 1, Len(t)))

\* C10: a token global.local is recognised before the other forms and is
\* canonicalised to global + separator + local.
C10_GlobalDotLocalRecognised ==
  \A k \in 1..Len(tok) :
     (pc = "scanned" /\ IsGlobalDotLocal(tok, k)) =>
        /\ res.kind = "global_local"
        /\ res.glob = SubSeq(tok, 1, k - 1)
        /\ res.loc = SubSeq(tok, k + 1, Len(tok))

\* the line starts, after optional blanks, with an identifier
HasLeadIdent(t) == Ch(t, skip(t, 1)) = "a"

\* position behind that identifier and the blanks after it
AfterLeadIdent(t) == skip(t, SkipIdChars(t, skip(t, 1) + 1))

\* C11: a leading identifier is recognised as a label if and only if it
\* starts in column one or is followed by a colon, and never when that
\* colon is immediately followed by "+" or "-"; whenever nothing is
\* recognised the scan position is left unchanged.
C11_LabelIffColumnOneOrColon ==
  pc = "scanned" =>
    /\ HasLeadIdent(tok) =>
         LET a == AfterLeadIdent(tok)
             colon == Ch(tok, a) = ":"
             pm == colon /\ Ch(tok, a + 1) \in {"+", "-"}
         IN  (res.kind = "label") <=>
                ((~isspace(Ch(tok, 1)) \/ colon) /\ ~pm)
    /\ res.kind = "none" => res.start = 1

\* the last line read was dispatched and carries only a mnemonic
MnemonicStep ==
  /\ last.read /\ last.active /\ ~last.stopped
  /\ last.line.lab = "none" /\ last.line.iif = "none" /\ last.line.d # ""

\* C12: a mnemonic is looked up as a directive first, else as a macro, else
\* as a structure template, else as an instruction: a macro wins over a
\* structure template of the same name, and a directive over both.
C12_LookupOrder ==
  MnemonicStep =>
    LET d == last.line.d
    IN  last.handler =
          IF d \in Directives THEN d
          ELSE IF <<d>> \in macros THEN "execute_macro"
          ELSE IF <<d>> \in structs THEN "execute_struct"
          ELSE ""

\* C12 witness: the mnemonic M was read while both a macro M and a structure
\* template M exist, and the macro was invoked
C12_Witness ==
  /\ MnemonicStep
  /\ last.line.d = "M"
  /\ LabelName \in macros /\ LabelName \in structs
  /\ last.handler = "execute_macro"

\* positions of the data/space atoms of a template, in definition order
DataFields(fs) ==
  LET F[i \in 0..Len(fs)] ==
        IF i = 0 THEN <<>>
        ELSE IF fs[i] \in {"DATA", "SPACE", "DATADEF"} THEN Append(F[i - 1], i)
        ELSE F[i - 1]
  IN  F[Len(fs)]

\* the k-th comma-separated segment of t without its leading blanks; empty
\* when there are fewer segments
RECURSIVE Segment(_, _)
Segment(t, k) ==
  LET commas == { i \in 1..Len(t) : t[i] = "," }
      first == IF commas = {} THEN Len(t) + 1
               ELSE CHOOSE i \in commas : \A j \in commas : i <= j
      seg == SubSeq(t, 1, first - 1)
  IN  IF k = 1 THEN SubSeq(seg, skip(seg, 1), Len(seg))
      ELSE IF commas = {} THEN <<>>
      ELSE Segment(SubSeq(t, first + 1, Len(t)), k - 1)

\* the atom the k-th data/space field at atom position i must produce
ExpectedAtom(fs, t, k, i) ==
  IF Segment(t, k) # <<>>
  THEN [type |-> fs[i], field |-> i, val |-> Segment(t, k)]
  ELSE [type |-> fs[i], field |-> i, val |-> <<"default">>]

\* C13 as stated: exactly one atom is emitted per data/space field, the
\* i-th field taking the i-th comma-separated segment, or a clone of its
\* default when that segment is empty or missing.
C13_OneAtomPerField ==
  pc = "scanned" =>
    LET df == DataFields(tok.fields)
    IN  /\ Len(res.atoms) = Len(df)
        /\ \A k \in 1..Len(df) :
             res.atoms[k] = ExpectedAtom(tok.fields, tok.s, k, df[k])

\* the data/space fields that emit an atom: all but a typed-data field
\* whose non-empty segment is not a valid data operand
EmittingFields(fs, t) ==
  LET df == DataFields(fs)
      F[k \in 0..Len(df)] ==
        IF k = 0 THEN <<>>
        ELSE IF fs[df[k]] = "DATADEF" /\ Segment(t, k) # <<>>
                /\ ~parse_operand(Segment(t, k))
             THEN F[k - 1]
             ELSE Append(F[k - 1], k)
  IN  F[Len(df)]

\* C13 amended: the i-th data/space field is paired with the i-th segment;
\* every such field emits exactly one atom (value or default clone), except
\* a typed-data field whose non-empty segment is an invalid data operand,
\* which emits no atom and raises the invalid-data-operand diagnostic.
C13_OneAtomPerFieldUnlessInvalid ==
  pc = "scanned" =>
    LET df == DataFields(tok.fields)
        em == EmittingFields(tok.fields, tok.s)
    IN  /\ Len(res.atoms) = Len(em)
        /\ \A n \in 1..Len(em) :
             res.atoms[n] = ExpectedAtom(tok.fields, tok.s, em[n], df[em[n]])
        /\ ("syntax_8" \in res.errs) <=> (Len(em) # Len(df))

\* C13 witness: `,5` on two data fields gave the default, then 5
C13_Witness ==
  /\ pc = "scanned"
  /\ tok.s = <<",", "5">>
  /\ tok.fields = <<"DATADEF", "DATADEF">>
  /\ res.atoms = << [type |-> "DATADEF", field |-> 1, val |-> <<"default">>],
                    [type |-> "DATADEF", field |-> 2, val |-> <<"5">>] >>

\* the characters stored into the output buffer, the terminating NUL of a
\* formatted number not counted
Stored(d) == SelectSeq(d, LAMBDA c : c # NUL)

\* C14: expand_macro never writes more than dlen characters into the
\* output buffer, for any escape form and any invocation context; a count
\* is returned only when the replacement fitted, and when -1 is returned
\* the line pointer is not advanced.
C14_NeverWritesBeyondDlen ==
  pc = "scanned" =>
    /\ Len(Stored(res.d)) <= tok.dlen
    /\ res.nc >= 0 => res.nc = Len(Stored(res.d))
    /\ res.nc = -1 => res.line = 1

\* the escape at the line pointer is `\?` followed by a digit or a name
IsArgTest(t) ==
  /\ Ch(t, 1) = "\\" /\ Ch(t, 2) = "?"
  /\ isdigit(Ch(t, 3)) \/ ISIDSTART(Ch(t, 3))

\* the argument `\?` asks for was supplied with non-empty text
ArgSupplied(src, t) ==
  IF isdigit(Ch(t, 3))
  THEN IF Ch(t, 3) = "0" THEN src.qual # <<>>
       ELSE /\ DigitVal(Ch(t, 3)) <= Len(src.param)
            /\ src.param[DigitVal(Ch(t, 3))] # <<>>
  ELSE \E i \in 1..Len(src.argnames) :
         /\ src.argnames[i] = SubSeq(t, 3, Len(t))
         /\ i <= Len(src.param)
         /\ src.param[i] # <<>>

\* C15: with room in the buffer, `\?<digit>` and `\?<name>` each expand to
\* exactly one character, "1" if the numbered or named argument was
\* supplied with non-empty text and "0" otherwise, also for an argument
\* number beyond those supplied and for a name that is not a declared
\* parameter; `\?0` gives "1" exactly when a qualifier was supplied.
C15_ArgTestIsOneCharacter ==
  (pc = "scanned" /\ IsArgTest(tok.line) /\ tok.dlen > 3) =>
    /\ res.nc = 1
    /\ res.d = <<IF ArgSupplied(tok.src, tok.line) THEN "1" ELSE "0">>

\* C16 as stated: `\@` expands to the decimal text of the invocation's
\* unique id, and two different ids give two different strings.
C16_UniqueIdDecimalText ==
  (pc = "scanned" /\ res.a.nc >= 0 /\ res.b.nc >= 0) =>
    /\ Stored(res.a.d) = Dec(tok.a)
    /\ Stored(res.b.d) = Dec(tok.b)
    /\ tok.a # tok.b => Stored(res.a.d) # Stored(res.b.d)

\* C16 amended: where `\@` is expanded it gives an underscore followed by
\* the decimal text of the unique id, zero-padded on the left to at least
\* six digits; two different ids give two different strings.
C16_UniqueIdPaddedText ==
  (pc = "scanned" /\ res.a.nc >= 0 /\ res.b.nc >= 0) =>
    /\ Stored(res.a.d) = <<"_">> \o Pad(Dec(tok.a), 6)
    /\ Stored(res.b.d) = <<"_">> \o Pad(Dec(tok.b), 6)
    /\ tok.a # tok.b => Stored(res.a.d) # Stored(res.b.d)

\* C16 witness: two different ids were both expanded
C16_Witness ==
  /\ pc = "scanned"
  /\ tok.a = 1 /\ tok.b = 11
  /\ res.a.nc = 7 /\ res.b.nc = 7
  /\ Stored(res.a.d) = <<"_", "0", "0", "0", "0", "0", "1">>
  /\ Stored(res.b.d) = <<"_", "0", "0", "0", "0", "1", "1">>

\* the quote that is open behind each character of t ("" when none)
QuoteOpen(t) ==
  LET Q[i \in 0..Len(t)] ==
        IF i = 0 THEN ""
        ELSE IF Q[i - 1] = ""
             THEN IF t[i] \in {"'", "\""} THEN t[i] ELSE ""
             ELSE IF t[i] = Q[i - 1] THEN "" ELSE Q[i - 1]
  IN  Q

\* character i of t lies outside every quoted string
Unquoted(t, i) == QuoteOpen(t)[i - 1] = "" /\ QuoteOpen(t)[i] = ""

\* the parentheses open behind each character of t, a closing parenthesis
\* without an open one being left unmatched
ParenDepth(t) ==
  LET D[i \in 0..Len(t)] ==
        IF i = 0 THEN 0
        ELSE IF Unquoted(t, i) /\ t[i] = "(" THEN D[i - 1] + 1
        ELSE IF Unquoted(t, i) /\ t[i] = ")" /\ D[i - 1] > 0 THEN D[i - 1] - 1
        ELSE D[i - 1]
  IN  D

UnmatchedClosing(t) ==
  \E i \in 1..Len(t) :
    Unquoted(t, i) /\ t[i] = ")" /\ ParenDepth(t)[i - 1] = 0

UnmatchedOpening(t) == ParenDepth(t)[Len(t)] > 0

WellFormedOperands(t) ==
  /\ QuoteOpen(t)[Len(t)] = ""
  /\ ~UnmatchedClosing(t) /\ ~UnmatchedOpening(t)

\* the commas of t outside quoted strings and parenthesised regions
TopLevelCommas(t) ==
  { i \in 1..Len(t) :
      t[i] = "," /\ Unquoted(t, i) /\ ParenDepth(t)[i] = 0 }

\* the spans, each followed by the comma that was stepped over behind it
Rejoined(t, r) ==
  LET J[k \in 0..Len(r.spans)] ==
        IF k = 0 THEN <<>>
        ELSE J[k - 1] \o SubSeq(t, r.spans[k][1], r.spans[k][2] - 1)
                      \o (IF r.spans[k][2] \in r.cuts THEN <<",">> ELSE <<>>)
  IN  J[Len(r.spans)]

Binding(flags) == BitAnd(flags, EXPORT + WEAK + LOCAL_FLAG)

\* C18: a binding directive on a symbol that already carries a different
\* binding among export/weak/local reports binding-already-set and does not
\* add the flag; on a symbol with no binding or the same binding it adds
\* the flag without that diagnostic.
C18_DifferentBindingRejected ==
  res.kind \in BindDirs =>
    LET bind == BindOf(res.kind)
        old == Binding(res.before)
    IN  IF old # 0 /\ old # Binding(bind)
        THEN "general_62" \in res.errs /\ tok.flags = res.before
        ELSE "general_62" \notin res.errs
             /\ tok.flags = BitOr(res.before, bind)

\* the last line read was dispatched
Dispatched == last.read /\ last.active /\ ~last.stopped

\* operand size of an rs spelling: 1/2/4 for b/w/l, 2 without qualifier
RsSize(d) ==
  CASE d = "rs.b" -> 1 [] d = "rs.w" -> 2 [] d = "rs.l" -> 4 [] d = "rs" -> 2

\* the next multiple of size at or above v
RoundedUp(v, size) ==
  CHOOSE m \in v..(v + size) : m % size = 0 /\ \A k \in v..(m - 1) : k % size # 0

\* the operand of the last line as a number
OperandOf(a) == IF a = "1" THEN 1 ELSE 3

C20_EveryIfOpensOneFrame ==
  [][ (LineStep /\ ~parse_end /\ last'.line.d \in IfDirs) =>
        Len(cond') = Len(cond) + 1 ]_vars

\* C21: immediately after every successful module or modend line the scope
\* prefix mirrors the module stack: at depth > 0 it is the generated name of
\* the id on top of the stack, every id on the stack having been given to
\* one module only, and at depth 0 it is the prefix that was in effect
\* immediately before the outermost module.
ScopeStep ==
  /\ pc = "parsing"
  /\ Dispatched
  /\ last.handler \in {"module", "modend"}
  /\ errs \cap {"module_depth", "modend_without_module"} = {}

C21_PrefixMirrorsModuleStack ==
  /\ \A i \in 0..(inline_stack_index - 1) :
        /\ inline_stack[i] < module_id
        /\ \A j \in 0..(i - 1) : inline_stack[j] # inline_stack[i]
  /\ ScopeStep =>
        IF inline_stack_index > 0
        THEN last_global_label = InlLabName(inline_stack[inline_stack_index - 1])
        ELSE last_global_label = last.outer

====
